---- MODULE Spec2Model ----
(***************************************************************************)
(* Model of the async-mpd client (src/client/mpdclient.rs) and of its      *)
(* reply decoders (src/client/resp/*.rs).                                  *)
(*                                                                         *)
(* Text.  A Rust string is modelled as the sequence of its lexical tokens: *)
(* a token is a maximal run of characters other than the separators, or    *)
(* one separator: ':', ' ', '"', '\', the apostrophe, the newline.         *)
(* starts_with,                                                            *)
(* split_once(": "), trim and equality are computed on these sequences the *)
(* way the code computes them on characters.  A stream holds lines without *)
(* their newline (BufReader::lines and read_line + trim both remove it).   *)
(*                                                                         *)
(* Option<T>.  None is <<>> and Some(x) is <<x>>.                          *)
(*                                                                         *)
(* Three specifications share the variables:                               *)
(*   Spec        the MpdClient state machine driven through its API        *)
(*               (new, connect, reconnect, exec) against a server;         *)
(*   HandlerSpec one ResponseHandler::handle call on a reader whose        *)
(*               content is drawn from a bounded set of replies;           *)
(*   DecodeSpec  the pure conversions: of a finalized RespMap into the     *)
(*               typed records, and of a command into its command line.    *)
(*                                                                         *)
(* exec returns what the handler of its command returns.  In Spec no       *)
(* reachable state holds a stream, because connect fails before it stores  *)
(* one, so the handler actions are steps of HandlerSpec only, where the    *)
(* reader is an input of the public ResponseHandler::handle.               *)
(***************************************************************************)
EXTENDS Integers, Sequences, FiniteSets, TLC

VARIABLES stream, addr, version, conns, srv, call, log,
          hname, rd, hmap, resvec, hres,
          ftext, fin, fout, conv

clientVars == <<stream, addr, version, conns, srv, call, log>>
handlerVars == <<hname, rd, hmap, resvec, hres>>
decodeVars == <<ftext, fin, fout, conv>>
vars == <<stream, addr, version, conns, srv, call, log,
          hname, rd, hmap, resvec, hres, ftext, fin, fout, conv>>

(***************************************************************************)
(* Bounds                                                                  *)
(***************************************************************************)
\* number of API calls made on one client
MaxCalls == 3
\* number of reply lines before the terminal line of a drawn reply
MaxBody == 4
\* number of key/value lines of a drawn RespMap
MaxMapLines == 3

(***************************************************************************)
(* Text helpers                                                            *)
(***************************************************************************)
None == <<>>

Some(x) == <<x>>

IsWs(tok) == tok = " "

\* str::trim : drop leading and trailing whitespace
RECURSIVE TrimStart(_)
TrimStart(t) ==
    IF t # <<>> /\ IsWs(Head(t)) THEN TrimStart(Tail(t)) ELSE t

RECURSIVE TrimEnd(_)
TrimEnd(t) ==
    IF t # <<>> /\ IsWs(t[Len(t)]) THEN TrimEnd(SubSeq(t, 1, Len(t) - 1)) ELSE t

Trim(t) == TrimEnd(TrimStart(t))

\* str::starts_with
StartsWith(t, p) ==
    /\ Len(t) >= Len(p)
    /\ SubSeq(t, 1, Len(p)) = p

\* positions at which the separator ": " starts
SepPositions(t) == {i \in 1..(Len(t) - 1) : t[i] = ":" /\ t[i + 1] = " "}

Min(S) == CHOOSE x \in S : \A y \in S : x <= y

\* str::split_once(": ") : Some((key, value)) at the first separator
SplitOnce(t) ==
    IF SepPositions(t) = {} THEN None
    ELSE LET i == Min(SepPositions(t))
         IN Some(<<SubSeq(t, 1, i - 1), SubSeq(t, i + 2, Len(t))>>)

OKLine == <<"OK">>

AckPrefix == <<"ACK", " ">>

AckLine == <<"ACK", " ", "[5@0]", " ", "{play}">>

GreetingLine == <<"OK", " ", "MPD", " ", "0.23.5">>

Line(k, v) == <<k, ":", " ", v>>

(***************************************************************************)
(* The command model (src/client/cmd.rs)                                   *)
(***************************************************************************)
\* the commands exercised by exec, each with its verb, argument and the
\* handler its impl of MpdCmd binds
Cmds ==
    { [verb |-> "status", arg |-> None, handler |-> "RespMapResponse"],
      [verb |-> "stop", arg |-> None, handler |-> "OkResponse"],
      [verb |-> "playid", arg |-> Some(<<"7">>), handler |-> "OkResponse"],
      [verb |-> "playlistinfo", arg |-> None, handler |-> "Tracks"],
      [verb |-> "listallinfo", arg |-> None, handler |-> "MixedResponseResponse"] }

\* a plausible slip: a quote or a backslash of the argument is escaped
RECURSIVE Escaped(_)
Escaped(t) ==
    IF t = <<>> THEN <<>>
    ELSE (IF t[1] \in {"\"", "\\"} THEN <<"\\", t[1]>> ELSE <<t[1]>>)
         \o Escaped(SubSeq(t, 2, Len(t)))

to_cmdline_escaped(cmd) ==
    IF cmd.arg # None
    THEN <<cmd.verb, " ", "\"">> \o Escaped(cmd.arg[1]) \o <<"\"", "\n">>
    ELSE <<cmd.verb, "\n">>

\* MpdCmd::to_cmdline, the newline being the token "\n"
to_cmdline(cmd) ==
    IF cmd.arg # None
    THEN <<cmd.verb, " ", "\"">> \o cmd.arg[1] \o <<"\"", "\n">>
    ELSE <<cmd.verb, "\n">>

\* the command structs: those without a field, and those with a u32, a bool,
\* a &str or an Option<&str> field
UnitCmds == {"Stats", "Status", "QueueClear", "PlaylistInfo", "Stop", "Next",
             "Prev", "Idle", "NoIdle"}

U32Cmds == {"Setvol", "PlayId"}

BoolCmds == {"Repeat", "Random", "Consume", "PlayPause"}

StrCmds == {"QueueAdd"}

OptStrCmds == {"Search", "Rescan", "Update", "Listall", "ListallInfo"}

\* argument values: numbers, and texts with a space, a backslash, a double
\* quote, an apostrophe and a line feed, each a token of its own
U32Args == {0, 7, 50}

StrArgs == { <<>>, <<"a">>, <<"a", " ", "b">>, <<"a", "\\", "b">>,
             <<"\"", "a", "\"">>, <<"it", "'", "s">>, <<"a", "\n", "b">> }

CmdValues ==
    {[name |-> n, val |-> <<>>] : n \in UnitCmds}
    \cup {[name |-> n, val |-> v] : n \in U32Cmds, v \in U32Args}
    \cup {[name |-> n, val |-> v] : n \in BoolCmds, v \in BOOLEAN}
    \cup {[name |-> n, val |-> v] : n \in StrCmds, v \in StrArgs}
    \cup {[name |-> n, val |-> v] : n \in OptStrCmds,
                                   v \in {None} \cup {Some(a) : a \in StrArgs}}

\* const CMD of each impl of MpdCmd
CMD(c) ==
    CASE c.name = "ListallInfo" -> "listallinfo"
      [] c.name = "QueueAdd" -> "add"
      [] c.name = "Listall" -> "listall"
      [] c.name = "Update" -> "update"
      [] c.name = "Rescan" -> "rescan"
      [] c.name = "Search" -> "search"
      [] c.name = "PlaylistInfo" -> "playlistinfo"
      [] c.name = "Repeat" -> "repeat"
      [] c.name = "Random" -> "random"
      [] c.name = "Consume" -> "consume"
      [] c.name = "PlayPause" -> "pause"
      [] c.name = "Next" -> "next"
      [] c.name = "Prev" -> "prev"
      [] c.name = "QueueClear" -> "clear"
      [] c.name = "NoIdle" -> "noidle"
      [] c.name = "Idle" -> "idle"
      [] c.name = "Stats" -> "stats"
      [] c.name = "Status" -> "status"
      [] c.name = "Setvol" -> "setvol"
      [] c.name = "Stop" -> "stop"
      [] c.name = "PlayId" -> "playid"

\* type Handler of each impl of MpdCmd
HandlerOf(c) ==
    CASE c.name = "ListallInfo" -> "MixedResponseResponse"
      [] c.name \in {"Search", "PlaylistInfo"} -> "Tracks"
      [] c.name \in {"Listall", "Update", "Rescan", "Idle", "Stats", "Status"}
           -> "RespMapResponse"
      [] OTHER -> "OkResponse"

\* MpdCmd::argument of each impl
argument(c) ==
    CASE c.name \in UnitCmds -> None
      [] c.name \in U32Cmds -> Some(<<ToString(c.val)>>)
      [] c.name \in BoolCmds -> Some(<<ToString(IF c.val THEN 1 ELSE 0)>>)
      [] c.name \in StrCmds -> Some(c.val)
      [] c.name \in OptStrCmds -> c.val

\* a command as exec uses it: verb, argument, handler
Descr(c) == [verb |-> CMD(c), arg |-> argument(c), handler |-> HandlerOf(c)]

(***************************************************************************)
(* The client (src/client/mpdclient.rs) and the server it talks to         *)
(***************************************************************************)
Addrs == {"127.0.0.1:6600", "10.0.0.2:6600"}

\* what the server does with the next socket: refuse it, accept it and send
\* the greeting, or accept it and close it before any greeting
SrvModes == {"refuse", "greet", "close"}

Idle == [op |-> "idle", pc |-> "idle", reader |-> 0, server_addr |-> None,
         pre |-> <<None, None, None>>, mode |-> "refuse"]

Fields == <<stream, addr, version>>

\* TcpStream::connect on an accepting server: a fresh connection, with the
\* greeting in flight or already closed
NewConn(a, mode) ==
    [peer |-> a,
     inq |-> IF mode = "greet" THEN <<GreetingLine>> ELSE <<>>,
     closed |-> (mode = "close"),
     held |-> TRUE,
     wrote |-> <<>>,
     nread |-> 0]

\* what the stream opened by a call looked like when the greeting was read
NewState(c) ==
    IF c = 0 THEN "none"
    ELSE IF conns[c].inq # <<>> THEN "greeting"
    ELSE IF conns[c].closed THEN "eof"
    ELSE "silent"

\* the record of a returned call
Event(op, res, pre, post, opened, readFrom, mode, new) ==
    [op |-> op, res |-> res, pre |-> pre, post |-> post, opened |-> opened,
     readFrom |-> readFrom, mode |-> mode, new |-> new]

\* the reader MpdClient::read_version reads the greeting from
ReadVersionSource_new(self_stream, reader) == Some(reader)

ReadVersionSource(self_stream, reader) == self_stream

\* the address MpdClient::reconnect connects to
ReconnectAddr_default(self_addr) ==
    IF self_addr = None THEN Some("127.0.0.1:6600") ELSE self_addr

ReconnectAddr(self_addr) == self_addr

\* a plausible slip: a second socket is opened as an internal retry
ConnectOpen_retry(op, a) ==
    IF srv = "refuse"
    THEN /\ log' = Append(log, Event(op, "IOError", Fields, Fields, 0, 0, srv, "none"))
         /\ UNCHANGED <<stream, addr, version, conns, srv, call>>
    ELSE /\ conns' = Append(Append(conns, [NewConn(a, srv) EXCEPT !.held = FALSE]),
                            NewConn(a, srv))
         /\ call' = [op |-> op, pc |-> "read_version", reader |-> Len(conns) + 2,
                     server_addr |-> Some(a), pre |-> Fields, mode |-> srv]
         /\ UNCHANGED <<stream, addr, version, srv, log>>

\* a plausible slip: the peer address is stored as soon as it is known
ConnectOpen_storeAddr(op, a) ==
    IF srv = "refuse"
    THEN /\ log' = Append(log, Event(op, "IOError", Fields, Fields, 0, 0, srv, "none"))
         /\ UNCHANGED <<stream, addr, version, conns, srv, call>>
    ELSE /\ conns' = Append(conns, NewConn(a, srv))
         /\ call' = [op |-> op, pc |-> "read_version", reader |-> Len(conns) + 1,
                     server_addr |-> Some(a), pre |-> Fields, mode |-> srv]
         /\ addr' = Some(a)
         /\ UNCHANGED <<stream, version, srv, log>>

\* MpdClient::connect up to the await of read_version: open the stream, take
\* the peer address (which a socket that has just connected has), wrap the
\* stream in a reader
ConnectOpen(op, a) ==
    IF srv = "refuse"
    THEN /\ log' = Append(log, Event(op, "IOError", Fields, Fields, 0, 0, srv, "none"))
         /\ UNCHANGED <<stream, addr, version, conns, srv, call>>
    ELSE /\ conns' = Append(conns, NewConn(a, srv))
         /\ call' = [op |-> op, pc |-> "read_version", reader |-> Len(conns) + 1,
                     server_addr |-> Some(a), pre |-> Fields, mode |-> srv]
         /\ UNCHANGED <<stream, addr, version, srv, log>>

\* MpdClient::connect
Connect(a) ==
    /\ call.pc = "idle"
    /\ Len(log) < MaxCalls
    /\ ConnectOpen("connect", a)
    /\ UNCHANGED <<handlerVars, decodeVars>>

\* MpdClient::reconnect
Reconnect ==
    /\ call.pc = "idle"
    /\ Len(log) < MaxCalls
    /\ IF ReconnectAddr(addr) # None
       THEN ConnectOpen("reconnect", ReconnectAddr(addr)[1])
       ELSE /\ log' = Append(log, Event("reconnect", "Disconnected", Fields, Fields,
                                        0, 0, srv, "none"))
            /\ UNCHANGED <<stream, addr, version, conns, srv, call>>
    /\ UNCHANGED <<handlerVars, decodeVars>>

\* a plausible slip: a failed greeting still remembers the address, so that
\* reconnect can try again
ReadVersion_keepAddr ==
    /\ call.pc = "read_version"
    /\ LET src == ReadVersionSource(stream, call.reader)
           new == NewState(call.reader)
       IN IF src = None
          THEN /\ conns' = [conns EXCEPT ![call.reader].held = FALSE]
               /\ addr' = call.server_addr
               /\ log' = Append(log, Event(call.op, "Disconnected", call.pre,
                                           <<stream, addr', version>>,
                                           call.reader, 0, call.mode, new))
               /\ UNCHANGED <<stream, version>>
          ELSE LET s == src[1]
                   line == IF conns[s].inq # <<>> THEN Head(conns[s].inq) ELSE <<>>
                   got == IF conns[s].inq # <<>> THEN 1 ELSE 0
               IN /\ conns[s].inq # <<>> \/ conns[s].closed
                  /\ conns' = [c \in DOMAIN conns |->
                                 [conns[c] EXCEPT
                                    !.inq = IF c = s /\ got = 1 THEN Tail(@) ELSE @,
                                    !.nread = IF c = s THEN @ + got ELSE @,
                                    !.held = IF stream = Some(c) /\ c # call.reader THEN FALSE ELSE @]]
                  /\ stream' = Some(call.reader)
                  /\ addr' = call.server_addr
                  /\ version' = Some(Trim(line))
                  /\ log' = Append(log, Event(call.op, "Ok", call.pre,
                                              <<stream', addr', version'>>,
                                              call.reader, s, call.mode, new))
    /\ call' = Idle
    /\ UNCHANGED <<srv, handlerVars, decodeVars>>

\* MpdClient::connect from read_version on: read one line, then store the
\* reader, the address and the version, which drops the stream held before.
\* On an error the local reader is dropped, which closes its socket.
ReadVersion ==
    /\ call.pc = "read_version"
    /\ LET src == ReadVersionSource(stream, call.reader)
           new == NewState(call.reader)
       IN IF src = None
          THEN /\ conns' = [conns EXCEPT ![call.reader].held = FALSE]
               /\ log' = Append(log, Event(call.op, "Disconnected", call.pre, Fields,
                                           call.reader, 0, call.mode, new))
               /\ UNCHANGED <<stream, addr, version>>
          ELSE LET s == src[1]
                   line == IF conns[s].inq # <<>> THEN Head(conns[s].inq) ELSE <<>>
                   got == IF conns[s].inq # <<>> THEN 1 ELSE 0
               IN /\ conns[s].inq # <<>> \/ conns[s].closed
                  /\ conns' = [c \in DOMAIN conns |->
                                 [conns[c] EXCEPT
                                    !.inq = IF c = s /\ got = 1 THEN Tail(@) ELSE @,
                                    !.nread = IF c = s THEN @ + got ELSE @,
                                    !.held = IF stream = Some(c) /\ c # call.reader THEN FALSE ELSE @]]
                  /\ stream' = Some(call.reader)
                  /\ addr' = call.server_addr
                  /\ version' = Some(Trim(line))
                  /\ log' = Append(log, Event(call.op, "Ok", call.pre,
                                              <<stream', addr', version'>>,
                                              call.reader, s, call.mode, new))
    /\ call' = Idle
    /\ UNCHANGED <<srv, handlerVars, decodeVars>>

\* a plausible slip: the error of the write is passed on as it is
send_command_err_io == "IOError"

\* MpdClient::send_command, the error of `ok_or(Disconnected)` and of
\* `map_err(|_| Disconnected)`
send_command_err == "Disconnected"

\* MpdClient::exec: encode, send_command, then hand the reader to the handler
\* the command binds
Exec(cmd) ==
    /\ call.pc = "idle"
    /\ Len(log) < MaxCalls
    /\ IF stream = None
       THEN /\ log' = Append(log, Event("exec", send_command_err, Fields, Fields,
                                        0, 0, srv, "none"))
            /\ UNCHANGED <<conns, call, handlerVars>>
       ELSE \E wrote \in BOOLEAN :
              IF wrote
              THEN /\ conns' = [conns EXCEPT ![stream[1]].wrote = Append(@, to_cmdline(cmd))]
                   /\ call' = [Idle EXCEPT !.op = "exec", !.pc = "handle", !.pre = Fields]
                   /\ hname' = cmd.handler
                   /\ rd' = [lines |-> conns[stream[1]].inq, pos |-> 0,
                             tail |-> IF conns[stream[1]].closed THEN "eof" ELSE "open",
                             hitEof |-> FALSE]
                   /\ hmap' = <<>>
                   /\ resvec' = [files |-> <<>>, dirs |-> <<>>, playlist |-> <<>>]
                   /\ hres' = [kind |-> "pending", msg |-> <<>>]
                   /\ UNCHANGED log
              ELSE /\ log' = Append(log, Event("exec", send_command_err, Fields, Fields,
                                               0, 0, srv, "none"))
                   /\ UNCHANGED <<conns, call, handlerVars>>
    /\ UNCHANGED <<stream, addr, version, srv, decodeVars>>

\* the server changes what it does with the next socket
ServerMode(m) ==
    /\ m # srv
    /\ srv' = m
    /\ UNCHANGED <<stream, addr, version, conns, call, log, handlerVars, decodeVars>>

\* the server closes a connection the client still holds
ServerDrop(c) ==
    /\ conns[c].held
    /\ ~conns[c].closed
    /\ conns' = [conns EXCEPT ![c].closed = TRUE]
    /\ UNCHANGED <<stream, addr, version, srv, call, log, handlerVars, decodeVars>>

\* MpdClient::new, with no handler running and nothing to convert
Init ==
    /\ stream = None
    /\ addr = None
    /\ version = None
    /\ conns = <<>>
    /\ srv \in SrvModes
    /\ call = Idle
    /\ log = <<>>
    /\ hname = "none"
    /\ rd = [lines |-> <<>>, pos |-> 0, tail |-> "open", hitEof |-> FALSE]
    /\ hmap = <<>>
    /\ resvec = [files |-> <<>>, dirs |-> <<>>, playlist |-> <<>>]
    /\ hres = [kind |-> "none", msg |-> <<>>]
    /\ ftext = <<>>
    /\ fin = <<>>
    /\ fout = None
    /\ conv = None

Next ==
    \/ \E a \in Addrs : Connect(a)
    \/ Reconnect
    \/ ReadVersion
    \/ \E cmd \in Cmds : Exec(cmd)
    \/ \E m \in SrvModes : ServerMode(m)
    \/ \E c \in DOMAIN conns : ServerDrop(c)

Spec == Init /\ [][Next]_vars

(***************************************************************************)
(* RespMap (src/client/resp/respmap.rs): a multimap kept as the sequence   *)
(* of its <<key, value>> pairs in insertion order                          *)
(***************************************************************************)
\* a key made of one word
K(word) == <<word>>

\* a plausible slip: only the value that is returned leaves the map
Without_popLast(map, key) ==
    LET idx == {i \in DOMAIN map : map[i][1] = key}
    IN IF idx = {} THEN map
       ELSE LET m == CHOOSE i \in idx : \A j \in idx : j <= i
            IN SubSeq(map, 1, m - 1) \o SubSeq(map, m + 1, Len(map))

\* MultiMap::remove, the part that stays in the map
Without(map, key) ==
    LET Other(p) == p[1] # key
    IN SelectSeq(map, Other)

\* a plausible slip: a map with one value per key, the last one inserted
insert_replace(map, key, val) == Append(Without(map, key), <<key, val>>)

\* RespMap::insert
insert(map, key, val) == Append(map, <<key, val>>)

\* RespMap::is_empty
is_empty(map) == map = <<>>

\* RespMap::contains_key
contains_key(map, key) == \E i \in DOMAIN map : map[i][1] = key

\* MultiMap::remove, the values taken out, in insertion order
ValuesOf(map, key) ==
    LET Mine(p) == p[1] = key
        hits == SelectSeq(map, Mine)
    IN [i \in DOMAIN hits |-> hits[i][2]]

\* RespMap::from_string / the insert loop of the handlers, for a whole text
RECURSIVE from_lines(_)
from_lines(lines) ==
    IF lines = <<>> THEN <<>>
    ELSE LET rest == from_lines(SubSeq(lines, 1, Len(lines) - 1))
             kv == SplitOnce(lines[Len(lines)])
         IN IF kv # None THEN insert(rest, kv[1][1], kv[1][2]) ELSE rest

\* tokens that parse as a signed integer, with the integer each one denotes
IntTokens == {"0", "1", "2", "7", "50", "141", "300", "-1"}

IntVal(t) ==
    CASE t = "0" -> 0
      [] t = "1" -> 1
      [] t = "2" -> 2
      [] t = "7" -> 7
      [] t = "50" -> 50
      [] t = "141" -> 141
      [] t = "300" -> 300
      [] t = "-1" -> 0 - 1

\* tokens that parse as an unsigned integer
UIntTokens == {t \in IntTokens : IntVal(t) >= 0}

\* the values of an integer type, among the integers a token denotes (all
\* of them below 2^31)
InRange(ty, n) ==
    CASE ty = "u8" -> n >= 0 /\ n <= 255
      [] ty = "u16" -> n >= 0 /\ n <= 65535
      [] ty = "u32" -> n >= 0
      [] ty = "i32" -> n >= 0 - 2147483647 - 1 /\ n <= 2147483647

\* tokens that parse as a float: the integers, decimals, and the non-finite
\* values str::parse::<f64> accepts
FloatTokens == IntTokens \cup {"149.029", "307.760", "0.000000", "inf", "NaN"}

\* the float a token denotes: whether it is finite, and its value in
\* thousandths
FloatVal(t) ==
    CASE t \in IntTokens -> [finite |-> TRUE, millis |-> IntVal(t) * 1000]
      [] t = "149.029" -> [finite |-> TRUE, millis |-> 149029]
      [] t = "307.760" -> [finite |-> TRUE, millis |-> 307760]
      [] t = "0.000000" -> [finite |-> TRUE, millis |-> 0]
      [] t \in {"inf", "NaN"} -> [finite |-> FALSE, millis |-> 0]

\* a plausible slip: the fraction of the seconds is lost
from_secs_f64_whole(x) ==
    IF ~x.finite \/ x.millis < 0
    THEN [panic |-> TRUE, secs |-> 0, nanos |-> 0]
    ELSE [panic |-> FALSE, secs |-> x.millis \div 1000, nanos |-> 0]

\* Duration::from_secs_f64, which panics on a negative or non-finite value
from_secs_f64(x) ==
    IF ~x.finite \/ x.millis < 0
    THEN [panic |-> TRUE, secs |-> 0, nanos |-> 0]
    ELSE [panic |-> FALSE, secs |-> x.millis \div 1000,
          nanos |-> (x.millis % 1000) * 1000000]

DateText == <<"2020-01-02T03", ":", "04", ":", "05Z">>

\* impl FromStr for State, followed by the .ok() of RespMap::get: the
\* ValueError of an unknown token becomes None
State_from_str(v) ==
    CASE v = <<"play">> -> Some(<<"Play">>)
      [] v = <<"pause">> -> Some(<<"Pause">>)
      [] v = <<"stop">> -> Some(<<"Stop">>)
      [] OTHER -> None

\* str::parse::<T>().ok() for the field types of the entities
Parse(ty, v) ==
    CASE ty = "String" -> Some(v)
      [] ty \in {"u32", "u16", "u8", "i32"}
           -> IF Len(v) = 1 /\ v[1] \in IntTokens /\ InRange(ty, IntVal(v[1]))
              THEN Some(IntVal(v[1])) ELSE None
      [] ty \in {"f64", "f32"}
           -> IF Len(v) = 1 /\ v[1] \in FloatTokens THEN Some(FloatVal(v[1])) ELSE None
      [] ty = "DateTime" -> IF v = DateText THEN Some(v) ELSE None
      [] ty = "State" -> State_from_str(v)

\* the default of a field type
Default(ty) ==
    CASE ty = "String" -> <<>>
      [] ty = "State" -> <<"Stop">>
      [] ty \in {"f64", "f32"} -> [finite |-> TRUE, millis |-> 0]
      [] OTHER -> 0

\* RespMap::get : the last value of the key, parsed
get(map, key, ty) ==
    LET vs == ValuesOf(map, key)
    IN IF vs = <<>> THEN None ELSE Parse(ty, vs[Len(vs)])

\* RespMap::get_vec
get_vec(map, key) == ValuesOf(map, key)

\* RespMap::get_def
get_def(map, key, ty) ==
    IF get(map, key, ty) = None THEN Default(ty) ELSE get(map, key, ty)[1]

\* RespMap::as_bool
as_bool(map, key) == get_def(map, key, "i32") # 0

\* RespMap::as_duration
as_duration(map, key) ==
    LET secs == get(map, key, "f64")
    IN IF secs = None THEN None ELSE Some(from_secs_f64(secs[1]))

\* RespMap::as_duration_def
as_duration_def(map, key) ==
    IF as_duration(map, key) = None THEN [panic |-> FALSE, secs |-> 0, nanos |-> 0]
    ELSE as_duration(map, key)[1]

(***************************************************************************)
(* Typed records (src/client/resp/respmap_handlers.rs)                     *)
(***************************************************************************)
\* impl From<RespMap> for Track
TrackFrom(map) ==
    [file |-> get_def(map, K("file"), "String"),
     artist_sort |-> get(map, K("ArtistSort"), "String"),
     album_artist |-> get(map, K("AlbumArtist"), "String"),
     album_sort |-> get(map, K("AlbumSort"), "String"),
     album_artist_sort |-> get(map, K("AlbumArtistSort"), "String"),
     performer |-> get_vec(map, K("Performer")),
     genre |-> get(map, K("Genre"), "String"),
     title |-> get(map, K("Title"), "String"),
     track |-> get(map, K("Track"), "u32"),
     album |-> get(map, K("Album"), "String"),
     artist |-> get(map, K("Artist"), "String"),
     pos |-> get(map, K("Pos"), "u32"),
     id |-> get(map, K("Id"), "u32"),
     last_modified |-> get(map, K("Last-Modified"), "DateTime"),
     original_date |-> get(map, K("OriginalDate"), "String"),
     time |-> get(map, K("Time"), "String"),
     format |-> get(map, K("Format"), "String"),
     duration |-> as_duration_def(map, K("duration")),
     label |-> get(map, K("Label"), "String"),
     date |-> get(map, K("Date"), "String"),
     disc |-> get(map, K("Disc"), "u32"),
     musicbraiz_trackid |-> get(map, K("MUSICBRAINZ_TRACKID"), "String"),
     musicbrainz_albumid |-> get(map, K("MUSICBRAINZ_ALBUMID"), "String"),
     musicbrainz_albumartistid |-> get(map, K("MUSICBRAINZ_ALBUMARTISTID"), "String"),
     musicbrainz_artistid |-> get(map, K("MUSICBRAINZ_ARTISTID"), "String"),
     musicbraiz_releasetrackid |-> get(map, K("MUSICBRAINZ_RELEASETRACKID"), "String"),
     musicbraiz_workid |-> get(map, K("MUSICBRAINZ_WORKID"), "String"),
     composer |-> get_vec(map, K("Composer"))]

\* impl From<RespMap> for Subsystem
SubsystemFrom(map) ==
    LET got == get(map, K("subsystem"), "String")
        s == IF got = None THEN <<"other">> ELSE got[1]
    IN CASE s = <<"partitions">> -> "Partitions"
         [] s = <<"player">> -> "Player"
         [] s = <<"mixer">> -> "Mixer"
         [] s = <<"options">> -> "Options"
         [] s = <<"update">> -> "Update"
         [] s = <<"storedplaylist">> -> "StoredPlaylist"
         [] s = <<"output">> -> "Output"
         [] OTHER -> "Other"

\* impl From<RespMap> for Status
StatusFrom(map) ==
    [partition |-> get(map, K("partition"), "String"),
     volume |-> get(map, K("volume"), "u8"),
     repeat |-> as_bool(map, K("repeat")),
     random |-> as_bool(map, K("random")),
     single |-> get_def(map, K("single"), "String"),
     consume |-> as_bool(map, K("consume")),
     playlist |-> get_def(map, K("playlist"), "u32"),
     playlistlength |-> get_def(map, K("playlistlength"), "u32"),
     song |-> get(map, K("song"), "u32"),
     songid |-> get(map, K("songid"), "u32"),
     nextsong |-> get(map, K("nextsong"), "u32"),
     nextsongid |-> get(map, K("nextsongid"), "u32"),
     time |-> get(map, K("time"), "String"),
     elapsed |-> as_duration(map, K("elapsed")),
     duration |-> as_duration(map, K("duration")),
     mixrampdb |-> get_def(map, K("mixrampdb"), "f32"),
     mixrampdelay |-> get(map, K("mixrampdelay"), "u32"),
     state |-> get_def(map, K("state"), "State"),
     bitrate |-> get(map, K("bitrate"), "u16"),
     xfade |-> get(map, K("xfade"), "u32"),
     audio |-> get(map, K("audio"), "String"),
     updating_db |-> get(map, K("updating_db"), "u32"),
     error |-> get(map, K("error"), "String")]

\* impl From<RespMap> for Stats
StatsFrom(map) ==
    [uptime |-> as_duration_def(map, K("uptime")),
     playtime |-> as_duration_def(map, K("playtime")),
     artists |-> get_def(map, K("artists"), "u32"),
     albums |-> get_def(map, K("albums"), "u32"),
     songs |-> get_def(map, K("songs"), "u32"),
     db_playtime |-> as_duration_def(map, K("db_playtime")),
     db_update |-> get_def(map, K("db_update"), "i32")]

\* a plausible slip: the key of the Stats field is read
DatabaseVersionFrom_dbUpdate(map) == get_def(map, K("db_update"), "u32")

\* impl From<RespMap> for DatabaseVersion
DatabaseVersionFrom(map) == get_def(map, K("updating_db"), "u32")

\* the keys each conversion takes out of the map, in the order of its calls
StatusKeys ==
    <<K("partition"), K("volume"), K("repeat"), K("random"), K("single"),
      K("consume"), K("playlist"), K("playlistlength"), K("song"), K("songid"),
      K("nextsong"), K("nextsongid"), K("time"), K("elapsed"), K("duration"),
      K("mixrampdb"), K("mixrampdelay"), K("state"), K("bitrate"), K("xfade"),
      K("audio"), K("updating_db"), K("error")>>

StatsKeys ==
    <<K("uptime"), K("playtime"), K("artists"), K("albums"), K("songs"),
      K("db_playtime"), K("db_update")>>

\* the map a conversion is left with after its get, get_def and get_vec
\* calls, each of which removes its key
RECURSIVE Leftover(_, _)
Leftover(map, keys) ==
    IF keys = <<>> THEN map ELSE Leftover(Without(map, Head(keys)), Tail(keys))

\* RespMap::as_duration panics on the value of this key
DurationPanics(map, key) ==
    LET secs == get(map, key, "f64")
    IN secs # None /\ from_secs_f64(secs[1]).panic

\* impl From<RespMap> for ListallResponse
ListallFrom(map) ==
    [files |-> get_vec(map, K("file")),
     dirs |-> get_vec(map, K("directory")),
     playlists |-> get_vec(map, K("playlist"))]

\* impl From<RespMap> for Directory
DirectoryFrom(map) ==
    [path |-> get_def(map, K("directory"), "String"),
     last_modified |-> get(map, K("Last-Modified"), "DateTime")]

\* impl From<RespMap> for Playlist
PlaylistFrom(map) ==
    [path |-> get_def(map, K("playlist"), "String"),
     last_modified |-> get(map, K("Last-Modified"), "DateTime")]

\* a plausible slip: the file test ahead of the directory test
TryFrom_fileFirst(map) ==
    IF contains_key(map, K("file")) THEN [tag |-> "File", val |-> TrackFrom(map)]
    ELSE IF contains_key(map, K("directory"))
    THEN [tag |-> "Directory", val |-> DirectoryFrom(map)]
    ELSE IF contains_key(map, K("playlist"))
    THEN [tag |-> "Playlist", val |-> PlaylistFrom(map)]
    ELSE [tag |-> "Err", val |-> <<>>]

\* a plausible slip: a map without a boundary key falls back to a track
TryFrom_fallback(map) ==
    IF contains_key(map, K("directory"))
    THEN [tag |-> "Directory", val |-> DirectoryFrom(map)]
    ELSE IF contains_key(map, K("playlist"))
    THEN [tag |-> "Playlist", val |-> PlaylistFrom(map)]
    ELSE [tag |-> "File", val |-> TrackFrom(map)]

\* impl TryFrom<RespMap> for MixedResponse
TryFrom(map) ==
    IF contains_key(map, K("directory"))
    THEN [tag |-> "Directory", val |-> DirectoryFrom(map)]
    ELSE IF contains_key(map, K("playlist"))
    THEN [tag |-> "Playlist", val |-> PlaylistFrom(map)]
    ELSE IF contains_key(map, K("file"))
    THEN [tag |-> "File", val |-> TrackFrom(map)]
    ELSE [tag |-> "Err", val |-> <<>>]

EmptyResvec == [files |-> <<>>, dirs |-> <<>>, playlist |-> <<>>]

\* a plausible slip: the newest record goes to the front of its list
Emit_front(res, map) ==
    LET dtp == TryFrom(map)
    IN CASE dtp.tag = "File" -> [res EXCEPT !.files = <<dtp.val>> \o @]
         [] dtp.tag = "Directory" -> [res EXCEPT !.dirs = <<dtp.val>> \o @]
         [] dtp.tag = "Playlist" -> [res EXCEPT !.playlist = <<dtp.val>> \o @]
         [] OTHER -> res

\* mixed_stream, the `if let Ok(dtp) = MixedResponse::try_from(map)` blocks:
\* push the finalized map onto the list of its type
Emit(res, map) ==
    LET dtp == TryFrom(map)
    IN CASE dtp.tag = "File" -> [res EXCEPT !.files = Append(@, dtp.val)]
         [] dtp.tag = "Directory" -> [res EXCEPT !.dirs = Append(@, dtp.val)]
         [] dtp.tag = "Playlist" -> [res EXCEPT !.playlist = Append(@, dtp.val)]
         [] OTHER -> res

\* mixed_stream, the test that a line opens a new record
IsBoundary(line) ==
    \/ StartsWith(line, <<"directory", ":">>)
    \/ StartsWith(line, <<"file", ":">>)
    \/ StartsWith(line, <<"playlist", ":">>)

\* a plausible slip: the current map is kept when a new record opens
OpenRecord_keep(map) == map

\* mixed_stream, `map = RespMap::new()` when a new record opens
OpenRecord(map) == <<>>

(***************************************************************************)
(* The response handlers (src/client/resp/handlers.rs) on a reader         *)
(***************************************************************************)
Handlers == {"OkResponse", "RespMapResponse", "Tracks", "MixedResponseResponse"}

\* the reader has a line or the end of the stream to deliver
Readable == rd.pos < Len(rd.lines) \/ rd.tail = "eof"

\* Lines::next yields a line
HasLine == rd.pos < Len(rd.lines)

NextLine == rd.lines[rd.pos + 1]

Result(kind, msg) == [kind |-> kind, msg |-> msg]

\* OkResponse::handle
OkResponse_handle ==
    /\ hname = "OkResponse"
    /\ hres.kind = "pending"
    /\ Readable
    /\ IF HasLine
       THEN /\ rd' = [rd EXCEPT !.pos = @ + 1]
            /\ hres' = IF NextLine = OKLine THEN Result("Ok", <<>>)
                       ELSE Result("ServerError", NextLine)
       ELSE /\ rd' = [rd EXCEPT !.hitEof = TRUE]
            /\ hres' = Result("Ok", <<>>)
    /\ UNCHANGED <<hname, hmap, resvec, clientVars, decodeVars>>

\* RespMapResponse::handle, one turn of its loop or the return after it
RespMapResponse_handle ==
    /\ hname = "RespMapResponse"
    /\ hres.kind = "pending"
    /\ Readable
    /\ IF HasLine
       THEN LET line == NextLine
                kv == SplitOnce(line)
            IN /\ rd' = [rd EXCEPT !.pos = @ + 1]
               /\ IF line = OKLine
                  THEN hres' = Result("Ok", <<>>) /\ hmap' = hmap
                  ELSE IF StartsWith(line, AckPrefix)
                  THEN hres' = Result("ServerError", line) /\ hmap' = <<>>
                  ELSE /\ hres' = hres
                       /\ hmap' = IF kv # None THEN insert(hmap, kv[1][1], kv[1][2])
                                  ELSE hmap
       ELSE /\ rd' = [rd EXCEPT !.hitEof = TRUE]
            /\ hres' = Result("Ok", <<>>)
            /\ hmap' = hmap
    /\ UNCHANGED <<hname, resvec, clientVars, decodeVars>>

\* mixed_stream, one turn of its loop or the return after it, called by the
\* Tracks and MixedResponseResponse handlers
mixed_stream ==
    /\ hname \in {"Tracks", "MixedResponseResponse"}
    /\ hres.kind = "pending"
    /\ Readable
    /\ IF HasLine
       THEN LET line == Trim(NextLine)
                kv == SplitOnce(line)
                opens == ~is_empty(hmap) /\ IsBoundary(line)
                map1 == IF opens THEN OpenRecord(hmap) ELSE hmap
            IN /\ rd' = [rd EXCEPT !.pos = @ + 1]
               /\ IF line = OKLine
                  THEN /\ resvec' = Emit(resvec, hmap)
                       /\ hmap' = <<>>
                       /\ hres' = Result("Ok", <<>>)
                  ELSE /\ resvec' = IF opens THEN Emit(resvec, hmap) ELSE resvec
                       /\ hmap' = IF kv # None THEN insert(map1, kv[1][1], kv[1][2])
                                  ELSE map1
                       /\ hres' = hres
       ELSE /\ rd' = [rd EXCEPT !.hitEof = TRUE]
            /\ hres' = Result("Ok", <<>>)
            /\ UNCHANGED <<hmap, resvec>>
    /\ UNCHANGED <<hname, clientVars, decodeVars>>

\* a plausible slip: tracks hands back the records of all three lists
Returned_all ==
    CASE hname = "OkResponse" -> <<>>
      [] hname = "RespMapResponse" -> hmap
      [] hname = "Tracks" -> resvec.files \o resvec.dirs \o resvec.playlist
      [] OTHER -> resvec

\* the value a handler returned: the unit, the map handed to T::from, the
\* tracks, or the three lists
Returned ==
    CASE hname = "OkResponse" -> <<>>
      [] hname = "RespMapResponse" -> hmap
      [] hname = "Tracks" -> resvec.files
      [] OTHER -> resvec

\* lines a reply is drawn from
BodyLines ==
    { Line("file", "a"), Line("file", "b"), Line("Title", "A"), Line("Title", "B"),
      Line("directory", "d"), Line("playlist", "p") }

SeqsUpTo(S, n) == UNION {[1..k -> S] : k \in 0..n}

\* what follows the body: nothing, or a terminal line and possibly the first
\* line of what the server sends next
Endings ==
    { <<>>, <<OKLine>>, <<AckLine>>,
      <<OKLine, Line("file", "b")>>, <<AckLine, Line("Title", "B")>>,
      <<AckLine, OKLine>> }

\* lines that are not a plain key and value: a boundary prefix without the
\* separator, an empty value, a value holding the separator, no separator
OddLines ==
    { Line("file", "a"), <<"file", ":", "x">>, <<"Genre", ":", " ">>,
      <<"Title", ":", " ", "A", ":", " ", "B">>, <<"junk">> }

\* lines of a reply to update or rescan: the job id, a value that is not a
\* number, and a key the conversion does not read
UpdateLines ==
    { Line("updating_db", "7"), Line("updating_db", "abc"), Line("X-Unknown", "u") }

\* the families of lines a handler is run on
Families(h) ==
    IF h = "RespMapResponse" THEN {BodyLines, OddLines, UpdateLines}
    ELSE {BodyLines, OddLines}

\* the replies a handler is run on: a body drawn from one family of lines,
\* then an ending
Replies(h) ==
    {body \o ending : body \in UNION {SeqsUpTo(F, IF h = "OkResponse" THEN 1 ELSE MaxBody)
                                         : F \in Families(h)},
                      ending \in Endings}

HandlerInit ==
    /\ stream = None
    /\ addr = None
    /\ version = None
    /\ conns = <<>>
    /\ srv = "greet"
    /\ call = Idle
    /\ log = <<>>
    /\ hname \in Handlers
    /\ \E lines \in Replies(hname), tail \in {"open", "eof"} :
          rd = [lines |-> lines, pos |-> 0, tail |-> tail, hitEof |-> FALSE]
    /\ hmap = <<>>
    /\ resvec = EmptyResvec
    /\ hres = Result("pending", <<>>)
    /\ ftext = <<>>
    /\ fin = <<>>
    /\ fout = None
    /\ conv = None

HandlerNext ==
    \/ OkResponse_handle
    \/ RespMapResponse_handle
    \/ mixed_stream

HandlerSpec == HandlerInit /\ [][HandlerNext]_vars

(***************************************************************************)
(* The conversions of a finalized map                                      *)
(***************************************************************************)
\* the texts a RespMap is built from: up to MaxMapLines lines of one reply
StatusLines ==
    { Line("repeat", "1"), Line("repeat", "0"), Line("repeat", "2"),
      Line("random", "-1"), Line("consume", "yes"),
      Line("state", "pause"), Line("state", "bogus") }

IdleLines ==
    { Line("changed", "player"), Line("changed", "bogus"),
      Line("subsystem", "player"), Line("subsystem", "bogus") }

\* well-formed lines of a status reply, one per key
StatusOkLines ==
    { Line("volume", "50"), Line("repeat", "1"), Line("random", "0"),
      Line("playlistlength", "141"), Line("state", "play"),
      Line("elapsed", "149.029"), Line("song", "1"),
      <<"time", ":", " ", "149", ":", "308">> }

\* lines whose value does not fit the type of the field
MalformedLines ==
    { Line("volume", "300"), Line("song", "abc"), Line("playlist", "abc"),
      Line("elapsed", "abc"), Line("elapsed", "-1"), Line("duration", "inf"),
      Line("uptime", "-1"), Line("artists", "abc") }

\* a line whose key no conversion knows, among known ones
UnknownLines ==
    { Line("X-Unknown", "u"), Line("volume", "50"), Line("state", "play"),
      Line("subsystem", "player"), Line("file", "a"), Line("updating_db", "7"),
      Line("uptime", "7") }

DecodeTexts ==
    UNION {SeqsUpTo(F, MaxMapLines) :
             F \in {BodyLines, StatusLines, IdleLines, StatusOkLines,
                    MalformedLines, UnknownLines}}

\* the outcome of a conversion: its name, its argument, Ok or the error, and
\* the value
Conv(fn, arg, kind, val) ==
    [fn |-> fn, arg |-> arg, kind |-> kind, val |-> val, warned |-> FALSE]

\* the outcome of a From<RespMap>: a panic, or the entity and whether the
\* `if !map.is_empty() { log::warn!(..) }` of the conversion fired
Entity(fn, panics, val, warned) ==
    IF panics THEN Conv(fn, <<>>, "Panic", <<>>)
    ELSE [Conv(fn, <<>>, "Ok", val) EXCEPT !.warned = warned]

\* MixedResponse::try_from applied to the drawn map
TryFromStep ==
    /\ fout = None
    /\ fout' = Some(TryFrom(fin))
    /\ UNCHANGED <<ftext, fin, conv, clientVars, handlerVars>>

\* keys asked of get_vec, one of them never inserted
GetVecKeys == {K("file"), K("Title"), K("directory"), K("playlist"), K("Performer")}

\* RespMap::get_vec applied to the drawn map
GetVecStep(key) ==
    /\ conv = None
    /\ conv' = Some(Conv("get_vec", key, "Ok", get_vec(fin, key)))
    /\ UNCHANGED <<ftext, fin, fout, clientVars, handlerVars>>

\* keys and target types asked of get, one key never inserted
GetArgs ==
    { [key |-> K("volume"), ty |-> "u8"], [key |-> K("song"), ty |-> "u32"],
      [key |-> K("elapsed"), ty |-> "f64"], [key |-> K("state"), ty |-> "State"],
      [key |-> K("file"), ty |-> "String"], [key |-> K("Title"), ty |-> "String"],
      [key |-> K("Performer"), ty |-> "String"] }

\* RespMap::get applied to the drawn map, then get and get_vec of the same
\* key applied to the map the first call left
GetStep(a) ==
    /\ conv = None
    /\ LET rest == Without(fin, a.key)
       IN conv' = Some(Conv("get", a, "Ok",
                            [first |-> get(fin, a.key, a.ty),
                             second |-> get(rest, a.key, a.ty),
                             vec |-> get_vec(rest, a.key),
                             rest |-> rest]))
    /\ UNCHANGED <<ftext, fin, fout, clientVars, handlerVars>>

\* ListallResponse::from applied to the drawn map
ListallStep ==
    /\ conv = None
    /\ conv' = Some(Conv("ListallResponse", <<>>, "Ok", ListallFrom(fin)))
    /\ UNCHANGED <<ftext, fin, fout, clientVars, handlerVars>>

\* MpdClient::repeat, random, consume: the command struct handed to exec
repeat(b) == [name |-> "Repeat", val |-> b]

random(b) == [name |-> "Random", val |-> b]

consume(b) == [name |-> "Consume", val |-> b]

\* a plausible slip: the flag is handed on as it is
play_pause_direct(p) == [name |-> "PlayPause", val |-> p]

\* MpdClient::play_pause
play_pause(p) == [name |-> "PlayPause", val |-> ~p]

\* MpdClient::play
play == play_pause(TRUE)

\* MpdClient::pause
pause == play_pause(FALSE)

\* the playback and option methods of the client, with their flag
ApiCalls ==
    {[fn |-> f, flag |-> None] : f \in {"play", "pause"}}
    \cup {[fn |-> f, flag |-> Some(b)] :
             f \in {"play_pause", "repeat", "random", "consume"}, b \in BOOLEAN}

\* the command struct a method hands to exec
ApiCmd(m) ==
    CASE m.fn = "play" -> play
      [] m.fn = "pause" -> pause
      [] m.fn = "play_pause" -> play_pause(m.flag[1])
      [] m.fn = "repeat" -> repeat(m.flag[1])
      [] m.fn = "random" -> random(m.flag[1])
      [] m.fn = "consume" -> consume(m.flag[1])

\* a method of the client up to the line its exec sends
ApiStep(m) ==
    /\ conv = None
    /\ ftext = <<>>
    /\ conv' = Some(Conv("api", m, "Ok", to_cmdline(Descr(ApiCmd(m)))))
    /\ UNCHANGED <<ftext, fin, fout, clientVars, handlerVars>>

(***************************************************************************)
(* The search filter (src/filter.rs)                                       *)
(***************************************************************************)
\* the most expressions a drawn filter holds
MaxExprs == 2

\* texts handed to equals and contains: plain, with a backslash, with an
\* apostrophe, and with a backslash before a double quote
FilterTexts == { <<"a">>, <<"a", "\\", "b">>, <<"it", "'", "s">>, <<"\\", "\"">> }

\* FilterExpr::Equals, FilterExpr::Contains, FilterExpr::Not
Equals(tag, s) == [kind |-> "Equals", tag |-> tag, s |-> s]

Contains(tag, s) == [kind |-> "Contains", tag |-> tag, s |-> s]

Not(e) == [kind |-> "Not", exp |-> e]

\* FilterExpr::to_query; {:?} of a Tag is its name
RECURSIVE FilterExpr_to_query(_)
FilterExpr_to_query(e) ==
    CASE e.kind = "Equals"
           -> <<"(", e.tag, " ", "==", " ", "\"">> \o e.s \o <<"\"", ")">>
      [] e.kind = "Contains"
           -> <<"(", e.tag, " ", "contains", " ", "\"">> \o e.s \o <<"\"", ")">>
      [] e.kind = "Not" -> <<"!">> \o FilterExpr_to_query(e.exp)

\* Filter::new, Filter::and, Filter::and_not
Filter_new == [exprs |-> <<>>]

Filter_and(f, other) == [exprs |-> Append(f.exprs, other)]

Filter_and_not(f, other) == [exprs |-> Append(f.exprs, Not(other))]

\* str::replace of one character by a text
RECURSIVE replace(_, _, _)
replace(t, from, to) ==
    IF t = <<>> THEN <<>>
    ELSE (IF t[1] = from THEN to ELSE <<t[1]>>) \o replace(SubSeq(t, 2, Len(t)), from, to)

\* a plausible slip: the quotes are escaped before the backslashes
escape_quotesFirst(s) ==
    replace(replace(replace(s, "\"", <<"\\", "\"">>), "'", <<"\\", "'">>),
            "\\", <<"\\", "\\">>)

\* escape: three replacements, one after the other
escape(s) ==
    replace(replace(replace(s, "\\", <<"\\", "\\">>), "\"", <<"\\", "\"">>),
            "'", <<"\\", "'">>)

\* Itertools::join of texts with a separator
RECURSIVE join(_, _)
join(parts, sep) ==
    IF parts = <<>> THEN <<>>
    ELSE IF Len(parts) = 1 THEN parts[1]
    ELSE parts[1] \o sep \o join(SubSeq(parts, 2, Len(parts)), sep)

\* Filter::to_query
Filter_to_query(f) ==
    IF f.exprs = <<>> THEN None
    ELSE LET joined == join([i \in DOMAIN f.exprs |-> FilterExpr_to_query(f.exprs[i])],
                            <<" ", "AND", " ">>)
         IN Some(<<"(">> \o escape(joined) \o <<")">>)

\* the calls that build a filter: and / and_not of an expression made by
\* Tag::equals or Tag::contains
FilterOps ==
    {[op |-> o, expr |-> e] :
        o \in {"and", "and_not"},
        e \in {Equals("Artist", s) : s \in FilterTexts}
              \cup {Contains("Album", s) : s \in FilterTexts}}

\* the filter a sequence of building calls gives, starting from Filter::new
RECURSIVE Build(_)
Build(ops) ==
    IF ops = <<>> THEN Filter_new
    ELSE LET f == Build(SubSeq(ops, 1, Len(ops) - 1))
             last == ops[Len(ops)]
         IN IF last.op = "and" THEN Filter_and(f, last.expr)
            ELSE Filter_and_not(f, last.expr)

\* MpdClient::search up to the line its exec sends
SearchStep(ops) ==
    /\ conv = None
    /\ ftext = <<>>
    /\ LET q == Filter_to_query(Build(ops))
       IN conv' = Some(Conv("search", ops, "Ok",
                            [query |-> q,
                             line |-> to_cmdline(Descr([name |-> "Search", val |-> q]))]))
    /\ UNCHANGED <<ftext, fin, fout, clientVars, handlerVars>>

\* MpdCmd::to_cmdline of a command; it takes no reply text
EncodeStep(c) ==
    /\ conv = None
    /\ ftext = <<>>
    /\ conv' = Some(Conv("to_cmdline", c, "Ok", to_cmdline(Descr(c))))
    /\ UNCHANGED <<ftext, fin, fout, clientVars, handlerVars>>

\* Status::from applied to the drawn map, as RespMapResponse<Status> does:
\* From is infallible, it returns the entity unless it panics
StatusStep ==
    /\ conv = None
    /\ conv' = Some(Entity("Status",
                           DurationPanics(fin, K("elapsed"))
                             \/ DurationPanics(fin, K("duration")),
                           StatusFrom(fin),
                           ~is_empty(Leftover(fin, StatusKeys))))
    /\ UNCHANGED <<ftext, fin, fout, clientVars, handlerVars>>

\* Subsystem::from applied to the drawn map, as RespMapResponse<Subsystem>
\* does for Idle
SubsystemStep ==
    /\ conv = None
    /\ conv' = Some(Conv("Subsystem", <<>>, "Ok", SubsystemFrom(fin)))
    /\ UNCHANGED <<ftext, fin, fout, clientVars, handlerVars>>

\* Stats::from applied to the drawn map
StatsStep ==
    /\ conv = None
    /\ conv' = Some(Entity("Stats",
                           \E k \in {"uptime", "playtime", "db_playtime"} :
                              DurationPanics(fin, K(k)),
                           StatsFrom(fin),
                           ~is_empty(Leftover(fin, StatsKeys))))
    /\ UNCHANGED <<ftext, fin, fout, clientVars, handlerVars>>

\* DatabaseVersion::from applied to the drawn map; it has no warning
DatabaseVersionStep ==
    /\ conv = None
    /\ conv' = Some(Entity("DatabaseVersion", FALSE, DatabaseVersionFrom(fin), FALSE))
    /\ UNCHANGED <<ftext, fin, fout, clientVars, handlerVars>>

DecodeInit ==
    /\ stream = None
    /\ addr = None
    /\ version = None
    /\ conns = <<>>
    /\ srv = "greet"
    /\ call = Idle
    /\ log = <<>>
    /\ hname = "none"
    /\ rd = [lines |-> <<>>, pos |-> 0, tail |-> "open", hitEof |-> FALSE]
    /\ hmap = <<>>
    /\ resvec = EmptyResvec
    /\ hres = Result("none", <<>>)
    /\ ftext \in DecodeTexts
    /\ fin = from_lines(ftext)
    /\ fout = None
    /\ conv = None

DecodeNext ==
    \/ TryFromStep
    \/ \E key \in GetVecKeys : GetVecStep(key)
    \/ \E a \in GetArgs : GetStep(a)
    \/ ListallStep
    \/ \E c \in CmdValues : EncodeStep(c)
    \/ \E m \in ApiCalls : ApiStep(m)
    \/ \E ops \in SeqsUpTo(FilterOps, MaxExprs) : SearchStep(ops)
    \/ StatusStep
    \/ SubsystemStep
    \/ StatsStep
    \/ DatabaseVersionStep

DecodeSpec == DecodeInit /\ [][DecodeNext]_vars

(***************************************************************************)
(* Properties                                                              *)
(***************************************************************************)
Unset == <<None, None, None>>

\* a connect or reconnect call that returned Ok precedes call i
ConnectedBefore(i) ==
    \E j \in 1..(i - 1) : log[j].op \in {"connect", "reconnect"} /\ log[j].res = "Ok"

\* a connect call whose socket was accepted and greeted precedes call i
GreetedBefore(i) ==
    \E j \in 1..(i - 1) : log[j].op = "connect" /\ log[j].new = "greeting"

\* the line ends a reply
IsTerminal(line) == Trim(line) = OKLine \/ StartsWith(line, AckPrefix)

\* the reader's lines hold no terminal line before position n
NoTerminalBefore(n) == \A j \in 1..(n - 1) : ~IsTerminal(rd.lines[j])

\* C1: a connect on a fresh client whose socket is accepted and greeted
\* returns Ok, having read exactly the greeting from the stream it opened;
\* the client then holds that stream, the peer address and the greeting as
\* version, and the greeting is no longer in the stream.
C1_ConnectReadsGreeting ==
    \A i \in DOMAIN log :
       (log[i].op = "connect" /\ log[i].pre = Unset /\ log[i].new = "greeting")
       => /\ log[i].res = "Ok"
          /\ log[i].readFrom = log[i].opened
          /\ log[i].post = <<Some(log[i].opened), Some(conns[log[i].opened].peer),
                             Some(GreetingLine)>>
          /\ conns[log[i].opened].nread = 1
          /\ conns[log[i].opened].inq = <<>>

\* C2: a handler whose read met the end of the stream before any terminal
\* line of the reply returned Disconnected.
C2_EofIsDisconnected ==
    (rd.hitEof /\ NoTerminalBefore(Len(rd.lines) + 1)) => hres.kind = "Disconnected"

\* C3: in the caller loop, after a greeted connect and an exec that reported
\* Disconnected, reconnect() against a server that accepts and greets returns
\* Ok, and so does the resubmitted command.
C3_LoopRecovers ==
    \A i \in DOMAIN log :
       (/\ i >= 2
        /\ GreetedBefore(i - 1)
        /\ log[i - 1].op = "exec"
        /\ log[i - 1].res = "Disconnected"
        /\ log[i].op = "reconnect"
        /\ log[i].mode = "greet")
       => /\ log[i].res = "Ok"
          /\ (i + 1 \in DOMAIN log /\ log[i + 1].op = "exec") => log[i + 1].res = "Ok"

\* C4: once a handler has consumed an 'ACK ' line as the terminal line of the
\* reply, it has returned CommandError carrying that line, and no value.
C4_AckIsCommandError ==
    (/\ rd.pos >= 1
     /\ \E i \in 1..rd.pos : StartsWith(rd.lines[i], AckPrefix) /\ NoTerminalBefore(i))
    => /\ hres.kind = "CommandError"
       /\ hres.msg = rd.lines[rd.pos]
       /\ StartsWith(rd.lines[rd.pos], AckPrefix)
       /\ hmap = <<>>
       /\ resvec = EmptyResvec

\* C5: a handler that returned Ok has consumed the reply up to and including
\* its 'OK' line, the first terminal line of the stream, and nothing after it.
C5_OkConsumesExactlyReply ==
    hres.kind = "Ok"
    => /\ rd.pos >= 1
       /\ rd.lines[rd.pos] = OKLine
       /\ NoTerminalBefore(rd.pos)
       /\ ~rd.hitEof

\* C6: reconnect() on a client that never connected returns Disconnected,
\* opens no socket and leaves stream, address and version unset.
C6_ReconnectNeverConnected ==
    \A i \in DOMAIN log :
       (log[i].op = "reconnect" /\ ~ConnectedBefore(i))
       => /\ log[i].res = "Disconnected"
          /\ log[i].opened = 0
          /\ log[i].pre = Unset
          /\ log[i].post = Unset

\* a reconnect on a never connected client has returned
C6_Witness ==
    \E i \in DOMAIN log : log[i].op = "reconnect" /\ ~ConnectedBefore(i)

\* C7: reconnect() after a greeted connect, against a server that accepts
\* and greets, opens a new stream and reads the greeting from that stream;
\* when it returns Ok the client holds the new stream, the old one is
\* released and the address is the one stored before.
C7_ReconnectUsesNewStream ==
    \A i \in DOMAIN log :
       (log[i].op = "reconnect" /\ GreetedBefore(i) /\ log[i].mode = "greet")
       => /\ log[i].opened # 0
          /\ log[i].readFrom = log[i].opened
          /\ log[i].res = "Ok"
             => /\ log[i].post[1] = Some(log[i].opened)
                /\ log[i].post[2] = log[i].pre[2]
                /\ log[i].pre[1] # None => ~conns[log[i].pre[1][1]].held

\* C8: a connect whose new stream ends before any greeting line returns an
\* error, and no connect returns Ok with an empty version.
C8_NoGreetingIsError ==
    \A i \in DOMAIN log :
       log[i].op \in {"connect", "reconnect"}
       => /\ log[i].new = "eof" => log[i].res # "Ok"
          /\ log[i].res = "Ok" => log[i].post[3] # Some(<<>>)

\* a connect whose new stream was closed before any greeting has returned
C8_Witness ==
    \E i \in DOMAIN log : log[i].op = "connect" /\ log[i].new = "eof" /\ log[i].res # "Ok"

\* the lines of the reply before its first 'OK' line
BodyOf(lines) ==
    LET oks == {i \in DOMAIN lines : lines[i] = OKLine}
    IN IF oks = {} THEN lines ELSE SubSeq(lines, 1, Min(oks) - 1)

IsFileLine(line) == StartsWith(line, <<"file", ":", " ">>)

IsTitleLine(line) == StartsWith(line, <<"Title", ":", " ">>)

\* every line is a file or Title line and the first one is a file line
FileRecords(body) ==
    /\ \A i \in DOMAIN body : IsFileLine(body[i]) \/ IsTitleLine(body[i])
    /\ body # <<>> => IsFileLine(body[1])

\* the position of the k-th file line of the body
RECURSIVE FilePos(_, _)
FilePos(body, k) ==
    LET from == IF k = 1 THEN 0 ELSE FilePos(body, k - 1)
    IN Min({i \in DOMAIN body : i > from /\ IsFileLine(body[i])})

NFiles(body) == Cardinality({i \in DOMAIN body : IsFileLine(body[i])})

\* the Title values of the k-th record, in reply order
TitlesOf(body, k) ==
    LET first == FilePos(body, k)
        last == IF k = NFiles(body) THEN Len(body) ELSE FilePos(body, k + 1) - 1
        InRecord(i) == i >= first /\ i <= last /\ IsTitleLine(body[i])
        idx == {i \in DOMAIN body : InRecord(i)}
    IN [i \in idx |-> SubSeq(body[i], 4, Len(body[i]))]

\* C9: for a reply of n records, each a 'file: ' line followed by its other
\* fields, closed by 'OK', Tracks returns n tracks in reply order, the k-th
\* with the file of the k-th file line and with the title given inside the
\* k-th record, or none when that record has no title.
C9_TracksSplitRecords ==
    LET body == BodyOf(rd.lines)
    IN (/\ hname = "Tracks"
        /\ hres.kind = "Ok"
        /\ rd.pos = Len(body) + 1
        /\ ~rd.hitEof
        /\ FileRecords(body))
       => /\ Len(Returned) = NFiles(body)
          /\ \A k \in 1..NFiles(body) :
                LET titles == TitlesOf(body, k)
                IN /\ Returned[k].file = SubSeq(body[FilePos(body, k)], 4, 4)
                   /\ DOMAIN titles = {} => Returned[k].title = None
                   /\ DOMAIN titles # {}
                      => \E i \in DOMAIN titles :
                            /\ Returned[k].title = Some(titles[i])
                            /\ \A j \in DOMAIN titles : j <= i

\* the reply file a / Title A / file b / Title B / OK decoded to two tracks
C9_Witness ==
    /\ hname = "Tracks"
    /\ hres.kind = "Ok"
    /\ rd.lines = <<Line("file", "a"), Line("Title", "A"),
                    Line("file", "b"), Line("Title", "B"), OKLine>>
    /\ Len(Returned) = 2
    /\ Returned[1].title = Some(<<"A">>)
    /\ Returned[2].title = Some(<<"B">>)

\* C10: a finalized map with key 'directory' decodes as Directory, one with
\* 'playlist' and no 'directory' as Playlist, and a map decodes as Track
\* only when it has neither key.
C10_FixedPriority ==
    fout # None
    => /\ contains_key(fin, K("directory")) => fout[1].tag = "Directory"
       /\ (~contains_key(fin, K("directory")) /\ contains_key(fin, K("playlist")))
          => fout[1].tag = "Playlist"
       /\ fout[1].tag = "File"
          => (~contains_key(fin, K("directory")) /\ ~contains_key(fin, K("playlist")))

\* a map holding both 'directory' and 'file' decoded as Directory
C10_Witness ==
    /\ fout # None
    /\ contains_key(fin, K("directory"))
    /\ contains_key(fin, K("file"))
    /\ fout[1].tag = "Directory"

\* the current map of the splitter holds no boundary key
NoBoundaryKey(map) ==
    /\ ~contains_key(map, K("directory"))
    /\ ~contains_key(map, K("playlist"))
    /\ ~contains_key(map, K("file"))

\* the splitter is about to finalize its current map: the line it reads is
\* the terminator, or a boundary line while the map holds data
Finalizes ==
    /\ hname \in {"Tracks", "MixedResponseResponse"}
    /\ hres.kind = "pending"
    /\ HasLine
    /\ \/ Trim(NextLine) = OKLine
       \/ ~is_empty(hmap) /\ IsBoundary(Trim(NextLine))

\* C11: a finalized non-empty map that holds none of the keys directory,
\* playlist and file is emitted as a Track record: the list of tracks grows
\* by the track made of that map, the record is not dropped.
C11_FallbackIsTrack ==
    [][ (Finalizes /\ ~is_empty(hmap) /\ NoBoundaryKey(hmap))
          => resvec'.files = Append(resvec.files, TrackFrom(hmap)) ]_vars

\* C12: a reply that is only OK yields Ok with empty files, dirs and playlist
\* lists, and no step of the splitter adds a record while its current map is
\* empty.
C12_NoEmptyRecord ==
    [][ /\ (resvec' # resvec => ~is_empty(hmap))
        /\ (Finalizes /\ rd.pos = 0 /\ Trim(NextLine) = OKLine)
             => (hres'.kind = "Ok" /\ resvec' = EmptyResvec) ]_vars

C12_Witness ==
    /\ hname = "MixedResponseResponse"
    /\ rd.lines = <<OKLine>>
    /\ rd.pos = 1
    /\ hres.kind = "Ok"
    /\ resvec = EmptyResvec

\* the values the lines of a text give for a key, in the order of the lines
ValuesInText(text, key) ==
    LET Mine(line) == Len(line) > 3 /\ <<line[1]>> = key /\ line[2] = ":" /\ line[3] = " "
        hits == SelectSeq(text, Mine)
    IN [i \in DOMAIN hits |-> SubSeq(hits[i], 4, Len(hits[i]))]

\* C13: get_vec(K) on the map built from a text returns the values the text
\* gives for K, with their multiplicity and in the order of the lines, and
\* the empty list when no line has the key; listall returns the file, the
\* directory and the playlist values of the reply, each in reply order.
C13_GetVecInOrder ==
    conv # None
    => /\ conv[1].fn = "get_vec" => conv[1].val = ValuesInText(ftext, conv[1].arg)
       /\ conv[1].fn = "ListallResponse"
          => conv[1].val = [files |-> ValuesInText(ftext, K("file")),
                            dirs |-> ValuesInText(ftext, K("directory")),
                            playlists |-> ValuesInText(ftext, K("playlist"))]

C13_Witness ==
    /\ conv # None
    /\ conv[1].fn = "get_vec"
    /\ ftext = <<Line("file", "a"), Line("file", "b"), Line("file", "a")>>
    /\ conv[1].val = <<<<"a">>, <<"b">>, <<"a">>>>

\* C14: the command line of a command without argument is its verb and a
\* newline; with an argument it is the verb, a space, a double quote, the
\* argument text unchanged (a backslash, a quote or an apostrophe stays as it
\* is), a double quote and a newline.  PlayId(7) gives playid "7"\n and Stop
\* gives stop\n.
C14_CmdlineFormat ==
    (conv # None /\ conv[1].fn = "to_cmdline")
    => LET c == conv[1].arg
           out == conv[1].val
           text == IF c.name \in StrCmds THEN c.val ELSE c.val[1]
       IN /\ c.name \in UnitCmds => out = <<CMD(c), "\n">>
          /\ (c.name \in OptStrCmds /\ c.val = None) => out = <<CMD(c), "\n">>
          /\ (c.name \in StrCmds \/ (c.name \in OptStrCmds /\ c.val # None))
             => out = <<CMD(c), " ", "\"">> \o text \o <<"\"", "\n">>
          /\ c.name \in U32Cmds \cup BoolCmds
             => /\ Len(out) = 6
                /\ SubSeq(out, 1, 3) = <<CMD(c), " ", "\"">>
                /\ SubSeq(out, 5, 6) = <<"\"", "\n">>
          /\ c = [name |-> "PlayId", val |-> 7]
             => out = <<"playid", " ", "\"", "7", "\"", "\n">>
          /\ c = [name |-> "Stop", val |-> <<>>] => out = <<"stop", "\n">>
          /\ c = [name |-> "PlayPause", val |-> TRUE]
             => out = <<"pause", " ", "\"", "1", "\"", "\n">>

C14_Witness ==
    /\ conv # None
    /\ conv[1].fn = "to_cmdline"
    /\ conv[1].arg = [name |-> "Search", val |-> Some(<<"\"", "a", "\"">>)]
    /\ conv[1].val = <<"search", " ", "\"", "\"", "a", "\"", "\"", "\n">>

\* the last value a text gives for a key, None without such a line
LastInText(text, key) ==
    LET vs == ValuesInText(text, key)
    IN IF vs = <<>> THEN None ELSE Some(vs[Len(vs)])

BoolField(st, key) ==
    CASE key = K("repeat") -> st.repeat
      [] key = K("random") -> st.random
      [] key = K("consume") -> st.consume

\* C15: for the bint fields of a status, the token 1 gives true and the token
\* 0 gives false, and any other present token gives a value error, never a
\* status holding true or false for it.
C15_BintValueError ==
    (conv # None /\ conv[1].fn = "Status")
    => \A key \in {K("repeat"), K("random"), K("consume")} :
         LET t == LastInText(ftext, key)
         IN t # None
            => /\ (t[1] = <<"1">> /\ conv[1].kind = "Ok") => BoolField(conv[1].val, key)
               /\ (t[1] = <<"0">> /\ conv[1].kind = "Ok") => ~BoolField(conv[1].val, key)
               /\ t[1] \notin {<<"0">>, <<"1">>} => conv[1].kind = "ValueError"

\* C16: a status reply whose state value is present and is not play, pause
\* or stop fails with a value error; no Status is returned for it.
C16_StateValueError ==
    (conv # None /\ conv[1].fn = "Status")
    => LET t == LastInText(ftext, K("state"))
       IN (t # None /\ t[1] \notin {<<"play">>, <<"pause">>, <<"stop">>})
          => conv[1].kind = "ValueError"

\* C17: the subsystem returned for an idle reply is the one its changed
\* field names, and a changed field naming no known subsystem gives a value
\* error, not a catch-all value.
C17_IdleSubsystem ==
    (conv # None /\ conv[1].fn = "Subsystem")
    => LET t == LastInText(ftext, K("changed"))
       IN t # None
          => /\ t[1] = <<"player">> => (conv[1].kind = "Ok" /\ conv[1].val = "Player")
             /\ t[1] = <<"bogus">> => conv[1].kind = "ValueError"

\* the number of command lines written so far, over all streams
RECURSIVE WrittenUpTo(_)
WrittenUpTo(n) ==
    IF n = 0 THEN 0 ELSE WrittenUpTo(n - 1) + Len(conns[n].wrote)

\* the number of returned calls of the given operations
CallsOf(ops) == Cardinality({i \in DOMAIN log : log[i].op \in ops})

\* the call in progress is one of the given operations
Running(ops) == IF call.pc # "idle" /\ call.op \in ops THEN 1 ELSE 0

\* C18: a connect or reconnect call opens at most one stream, and an exec
\* call writes at most one command line and opens no stream; a call that
\* fails returns its error, after which no stream is opened and no line is
\* written until the caller makes another call.
C18_OneAttemptPerCall ==
    /\ Len(conns) <= CallsOf({"connect", "reconnect"}) + Running({"connect", "reconnect"})
    /\ WrittenUpTo(Len(conns)) <= CallsOf({"exec"}) + Running({"exec"})
    /\ \A i \in DOMAIN log :
         /\ log[i].op = "exec" => log[i].opened = 0
         /\ log[i].res = "IOError" => log[i].opened = 0

C18_Witness ==
    /\ Len(log) = 3
    /\ log[1].op = "connect" /\ log[1].res = "Disconnected" /\ log[1].opened = 1
    /\ log[2].op = "exec" /\ log[2].res = "Disconnected"
    /\ log[3].op = "reconnect" /\ log[3].res = "Disconnected"
    /\ Len(conns) = 1
    /\ call.pc = "idle"

\* a handler that accumulates key/value lines reads a line that is neither
\* the terminator nor an error line
ReadsFieldLine ==
    /\ hname \in {"RespMapResponse", "Tracks", "MixedResponseResponse"}
    /\ hres.kind = "pending"
    /\ HasLine
    /\ NextLine # OKLine
    /\ Trim(NextLine) # OKLine
    /\ ~StartsWith(NextLine, AckPrefix)

\* C21: a reply line that is neither the terminator nor an error line is
\* split at its first ': ' and the pair is appended to the map; a line
\* without ': ' leaves the map as it is; in both cases decoding goes on.
C21_SplitAtFirstSeparator ==
    [][ ReadsFieldLine
        => LET kv == SplitOnce(NextLine)
           IN /\ hres'.kind = "pending"
              /\ kv = None => hmap' = hmap
              /\ kv # None
                 => /\ hmap' # <<>>
                    /\ hmap'[Len(hmap')] = <<kv[1][1], kv[1][2]>>
                    /\ kv[1][1] = SubSeq(NextLine, 1, Min(SepPositions(NextLine)) - 1) ]_vars

\* the lines of a text, as a set
LinesOf(text) == {text[i] : i \in DOMAIN text}

\* C22: Status::from of the map of a well-formed status text gives each
\* present line's value in its field, typed (volume 50, repeat true,
\* playlistlength 141, state Play, elapsed 149 s and 29 000 000 ns, time
\* kept as text), None for an absent optional field and the default for an
\* absent required one, whatever the order of the lines.
C22_StatusTyped ==
    (conv # None /\ conv[1].fn = "Status" /\ LinesOf(ftext) \subseteq StatusOkLines)
    => LET st == conv[1].val
           Has(k, v) == Line(k, v) \in LinesOf(ftext)
       IN /\ conv[1].kind = "Ok"
          /\ st.volume = IF Has("volume", "50") THEN Some(50) ELSE None
          /\ st.repeat = Has("repeat", "1")
          /\ st.random = FALSE
          /\ st.consume = FALSE
          /\ st.playlistlength = IF Has("playlistlength", "141") THEN 141 ELSE 0
          /\ st.playlist = 0
          /\ st.state = IF Has("state", "play") THEN <<"Play">> ELSE <<"Stop">>
          /\ st.elapsed = IF Has("elapsed", "149.029")
                          THEN Some([panic |-> FALSE, secs |-> 149, nanos |-> 29000000])
                          ELSE None
          /\ st.duration = None
          /\ st.song = IF Has("song", "1") THEN Some(1) ELSE None
          /\ st.time = IF <<"time", ":", " ", "149", ":", "308">> \in LinesOf(ftext)
                       THEN Some(<<"149", ":", "308">>) ELSE None
          /\ st.single = <<>>
          /\ st.partition = None /\ st.error = None /\ st.audio = None
          /\ st.songid = None /\ st.nextsong = None /\ st.nextsongid = None
          /\ st.bitrate = None /\ st.xfade = None /\ st.updating_db = None
          /\ st.mixrampdelay = None
          /\ st.mixrampdb = [finite |-> TRUE, millis |-> 0]

C22_Witness ==
    /\ conv # None
    /\ conv[1].fn = "Status"
    /\ ftext = <<Line("elapsed", "149.029"), Line("state", "play"), Line("volume", "50")>>
    /\ conv[1].val.elapsed = Some([panic |-> FALSE, secs |-> 149, nanos |-> 29000000])
    /\ conv[1].val.state = <<"Play">>
    /\ conv[1].val.volume = Some(50)

\* C23: a present field whose value does not fit its type (an integer field
\* holding a word or a number out of range, a seconds field holding a word,
\* a negative number or a non-finite one) becomes None or the default, and
\* the conversion returns the entity: it never panics.
C23_MalformedDegrades ==
    (conv # None /\ conv[1].fn \in {"Status", "Stats"}
       /\ LinesOf(ftext) \subseteq MalformedLines)
    => /\ conv[1].kind = "Ok"
       /\ conv[1].fn = "Status"
          => /\ conv[1].val.volume = None
             /\ conv[1].val.song = None
             /\ conv[1].val.playlist = 0
             /\ conv[1].val.elapsed = None
             /\ conv[1].val.duration = None
       /\ conv[1].fn = "Stats"
          => /\ conv[1].val.artists = 0
             /\ conv[1].val.uptime = [panic |-> FALSE, secs |-> 0, nanos |-> 0]

\* the text without its lines of the unknown key
KnownPart(text) ==
    LET Known(line) == line # Line("X-Unknown", "u")
    IN SelectSeq(text, Known)

\* C24: a line with a key the entity does not know never makes the decoding
\* fail and changes no field of the entity (the entity is the one decoded
\* from the reply without that line), and the conversion reports the
\* leftover key by a warning, for Status, Stats, Subsystem, ListallResponse
\* and DatabaseVersion alike.
C24_UnknownKeyWarned ==
    (conv # None
       /\ conv[1].fn \in {"Status", "Stats", "Subsystem", "ListallResponse",
                          "DatabaseVersion"}
       /\ Line("X-Unknown", "u") \in LinesOf(ftext))
    => LET base == from_lines(KnownPart(ftext))
       IN /\ conv[1].kind = "Ok"
          /\ conv[1].fn = "Status" => conv[1].val = StatusFrom(base)
          /\ conv[1].fn = "Stats" => conv[1].val = StatsFrom(base)
          /\ conv[1].fn = "Subsystem" => conv[1].val = SubsystemFrom(base)
          /\ conv[1].fn = "ListallResponse" => conv[1].val = ListallFrom(base)
          /\ conv[1].fn = "DatabaseVersion" => conv[1].val = DatabaseVersionFrom(base)
          /\ conv[1].warned

\* the server has sent a terminal line and the handler has read it
TerminalRead == \E j \in 1..rd.pos : IsTerminal(rd.lines[j])

\* C25: a handler has returned once it has read the terminal line of the
\* reply, the OK line or an ACK line; it does not go on reading, which on an
\* open stream is waiting for lines the server will not send.
C25_ReturnsAtTerminal ==
    (hname \in Handlers /\ TerminalRead) => hres.kind # "pending"

\* the lines read so far from all streams
RECURSIVE ReadUpTo(_)
ReadUpTo(n) == IF n = 0 THEN 0 ELSE ReadUpTo(n - 1) + conns[n].nread

SplitterReads ==
    /\ hname \in {"Tracks", "MixedResponseResponse"}
    /\ hres.kind = "pending"
    /\ HasLine
    /\ Trim(NextLine) # OKLine

\* sequence s is the beginning of sequence t
IsPrefix(s, t) == Len(s) <= Len(t) /\ SubSeq(t, 1, Len(s)) = s

\* C27: the splitter opens a new record only on a line whose key, the text
\* before its first ': ', is exactly file, directory or playlist, and only
\* when the current map holds data; then the new map starts with that line.
\* Any other line, also one that starts with 'file:' but has no ': ', closes
\* nothing: no record is emitted and the current map is kept and extended.
C27_ExactBoundaryKey ==
    [][ SplitterReads
        => LET kv == SplitOnce(Trim(NextLine))
               boundary == /\ kv # None
                           /\ kv[1][1] \in {K("file"), K("directory"), K("playlist")}
           IN /\ (boundary /\ ~is_empty(hmap)) => hmap' = <<<<kv[1][1], kv[1][2]>>>>
              /\ ~(boundary /\ ~is_empty(hmap))
                 => (resvec' = resvec /\ IsPrefix(hmap, hmap')) ]_vars

\* the keys of the lines of a text
KeysInText(text) ==
    {<<text[i][1]>> : i \in {j \in DOMAIN text : ValuesInText(<<text[j]>>, <<text[j][1]>>) # <<>>}}

\* the members of a sequence
Range(s) == {s[i] : i \in DOMAIN s}

\* C28: get(K) gives the last value the reply has under K, parsed to the
\* target type: None when the reply has no line of K or when that last value
\* does not parse (volume 300 as u8, song abc as u32), whatever earlier lines
\* of K hold. It takes every value of K out of the map: a second get gives
\* None, get_vec gives the empty list, and the values of the other keys stay.
\* After a Status or a Stats is extracted the map is empty exactly when every
\* key of the reply is a field of that entity.
C28_GetTakesLast ==
    conv # None
    => /\ conv[1].fn = "get"
          => LET key == conv[1].arg.key
                 ty == conv[1].arg.ty
                 last == LastInText(ftext, key)
                 v == conv[1].val
             IN /\ v.first = (IF last = None THEN None ELSE Parse(ty, last[1]))
                /\ last = Some(<<"50">>) /\ ty = "u8" => v.first = Some(50)
                /\ last = Some(<<"300">>) /\ ty = "u8" => v.first = None
                /\ last = Some(<<"abc">>) => v.first = None
                /\ last = Some(<<"play">>) /\ ty = "State" => v.first = Some(<<"Play">>)
                /\ v.second = None
                /\ v.vec = <<>>
                /\ \A k \in KeysInText(ftext) \ {key} :
                      ValuesOf(v.rest, k) = ValuesInText(ftext, k)
       /\ (conv[1].fn = "Status" /\ conv[1].kind = "Ok")
          => (~conv[1].warned <=> KeysInText(ftext) \subseteq Range(StatusKeys))
       /\ (conv[1].fn = "Stats" /\ conv[1].kind = "Ok")
          => (~conv[1].warned <=> KeysInText(ftext) \subseteq Range(StatsKeys))

\* get of a key the reply gives twice: the last value is returned although
\* an earlier one parses, and nothing of the key is left
C28_Witness ==
    /\ conv # None
    /\ conv[1].fn = "get"
    /\ conv[1].arg = [key |-> K("elapsed"), ty |-> "f64"]
    /\ ftext = <<Line("elapsed", "-1"), Line("uptime", "-1"), Line("elapsed", "abc")>>
    /\ conv[1].val.first = None
    /\ conv[1].val.rest = <<<<K("uptime"), <<"-1">>>>>>

\* C29: while a listallinfo reply is read, the lists change only when a map
\* is finalized and discriminated: the record then goes to the end of the
\* one list of its type (files for a track, dirs for a directory, playlist
\* for a playlist) and the other two lists stay as they are. So the three
\* lengths together count the records and each list is in reply order.
C29_EachRecordInOneList ==
    [][ hname = "MixedResponseResponse"
        => LET dtp == TryFrom(hmap)
           IN /\ resvec' # resvec => (Finalizes /\ dtp.tag # "Err")
              /\ (Finalizes /\ dtp.tag = "File")
                 => resvec' = [files |-> Append(resvec.files, dtp.val),
                               dirs |-> resvec.dirs, playlist |-> resvec.playlist]
              /\ (Finalizes /\ dtp.tag = "Directory")
                 => resvec' = [files |-> resvec.files,
                               dirs |-> Append(resvec.dirs, dtp.val),
                               playlist |-> resvec.playlist]
              /\ (Finalizes /\ dtp.tag = "Playlist")
                 => resvec' = [files |-> resvec.files, dirs |-> resvec.dirs,
                               playlist |-> Append(resvec.playlist, dtp.val)] ]_vars

\* a listallinfo reply of four records of three types, two of them tracks
C29_Witness ==
    /\ hname = "MixedResponseResponse"
    /\ hres.kind = "Ok"
    /\ rd.lines = <<Line("file", "a"), Line("directory", "d"),
                    Line("file", "b"), Line("playlist", "p"), OKLine>>
    /\ Len(resvec.files) = 2
    /\ resvec.files[1].file = <<"a">>
    /\ resvec.files[2].file = <<"b">>
    /\ Len(resvec.dirs) = 1
    /\ Len(resvec.playlist) = 1

\* C30: the Tracks handler returns the track records and nothing else: a
\* finalized map discriminated as a track is added at the end of what it
\* returns, a map discriminated as a directory or a playlist adds nothing,
\* and no other step changes what it returns. It stops with Ok on a line it
\* has read only at the line OK, which it consumes, so the records of every
\* type before that line have been read.
C30_TracksOnly ==
    [][ hname = "Tracks"
        => LET dtp == TryFrom(hmap)
           IN /\ Returned' # Returned => (Finalizes /\ dtp.tag = "File")
              /\ (Finalizes /\ dtp.tag = "File")
                 => Returned' = Append(Returned, TrackFrom(hmap))
              /\ (Finalizes /\ dtp.tag \in {"Directory", "Playlist"})
                 => Returned' = Returned
              /\ (hres.kind = "pending" /\ hres'.kind = "Ok" /\ HasLine)
                 => (Trim(NextLine) = OKLine /\ rd'.pos = rd.pos + 1) ]_vars

\* a search reply with a directory record between two tracks: both tracks
\* are returned in order, the directory is not, and the OK line is consumed
C30_Witness ==
    /\ hname = "Tracks"
    /\ hres.kind = "Ok"
    /\ rd.lines = <<Line("file", "b"), Line("directory", "d"),
                    Line("file", "a"), OKLine>>
    /\ rd.pos = 4
    /\ Len(Returned) = 2
    /\ Returned[1].file = <<"b">>
    /\ Returned[2].file = <<"a">>

\* C31: at every moment, also while a call is running, the stream, the stored
\* address and the version of the client are all unset or all set.
C31_AllOrNone ==
    \/ (stream = None /\ addr = None /\ version = None)
    \/ (stream # None /\ addr # None /\ version # None)

\* a connect whose socket got the greeting, a reconnect and an exec have all
\* returned, and the client holds none of the three
C31_Witness ==
    /\ Len(log) = 3
    /\ \E i \in DOMAIN log : log[i].op = "connect" /\ log[i].new = "greeting"
    /\ \E i \in DOMAIN log : log[i].op = "reconnect"
    /\ \E i \in DOMAIN log : log[i].op = "exec"
    /\ stream = None /\ addr = None /\ version = None

\* C32: a connect or reconnect call that returns an error returns with the
\* stream, the address and the version the client had when the call began,
\* whether the error is the refused socket, the missing address or the
\* failed read of the greeting.
C32_ErrorLeavesFields ==
    [][ (/\ Len(log') > Len(log)
         /\ log'[Len(log')].op \in {"connect", "reconnect"}
         /\ log'[Len(log')].res # "Ok")
        => <<stream', addr', version'>> = (IF call.pc = "idle" THEN Fields ELSE call.pre) ]_vars

\* a connect refused by the server, a connect whose socket got the greeting
\* and still failed, and a reconnect without address have all returned
C32_Witness ==
    /\ Len(log) = 3
    /\ log[1].op = "connect" /\ log[1].res = "IOError"
    /\ log[2].op = "connect" /\ log[2].res = "Disconnected" /\ log[2].new = "greeting"
    /\ log[3].op = "reconnect" /\ log[3].res = "Disconnected"
    /\ log[3].post = log[1].pre

\* the number of line feeds in a text
Newlines(t) == Cardinality({i \in DOMAIN t : t[i] = "\n"})

\* C33: the line exec writes for a command holds exactly one line feed, and
\* it is the last byte, for every command struct and every argument value.
C33_OneNewline ==
    (conv # None /\ conv[1].fn = "to_cmdline")
    => /\ Newlines(conv[1].val) = 1
       /\ conv[1].val[Len(conv[1].val)] = "\n"

\* the line of a verb with one quoted argument token
QuotedLine(verb, tok) == <<verb, " ", "\"", tok, "\"", "\n">>

\* C34: play sends the line pause "0" and pause sends the line pause "1";
\* play_pause(p) sends pause with 0 when p is true and 1 when p is false;
\* repeat, random and consume send their verb with 1 for true and 0 for
\* false.
C34_PlayPauseFlags ==
    (conv # None /\ conv[1].fn = "api")
    => LET m == conv[1].arg
           out == conv[1].val
       IN /\ m.fn = "play" => out = QuotedLine("pause", "0")
          /\ m.fn = "pause" => out = QuotedLine("pause", "1")
          /\ (m.fn = "play_pause" /\ m.flag = Some(TRUE)) => out = QuotedLine("pause", "0")
          /\ (m.fn = "play_pause" /\ m.flag = Some(FALSE)) => out = QuotedLine("pause", "1")
          /\ (m.fn \in {"repeat", "random", "consume"} /\ m.flag = Some(TRUE))
             => out = QuotedLine(m.fn, "1")
          /\ (m.fn \in {"repeat", "random", "consume"} /\ m.flag = Some(FALSE))
             => out = QuotedLine(m.fn, "0")

\* play has been encoded
C34_Witness ==
    /\ conv # None
    /\ conv[1].fn = "api"
    /\ conv[1].arg = [fn |-> "play", flag |-> None]
    /\ conv[1].val = <<"pause", " ", "\"", "0", "\"", "\n">>

\* C35: when the handler of update and rescan returns Ok on a reply, it has
\* read the reply up to and including its first OK line, and the
\* DatabaseVersion made of the map holds the number of the last updating_db
\* line before it: 7 for the value 7, and 0 when there is no such line or
\* its value is not a number. No such reply gives an error.
C35_UpdateReturnsVersion ==
    /\ hname = "RespMapResponse" => hres.kind # "ValueError"
    /\ (hname = "RespMapResponse" /\ hres.kind = "Ok" /\ ~rd.hitEof)
       => LET body == SubSeq(rd.lines, 1, rd.pos - 1)
              last == LastInText(body, K("updating_db"))
              v == DatabaseVersionFrom(Returned)
          IN /\ rd.pos >= 1
             /\ rd.lines[rd.pos] = OKLine
             /\ \A i \in DOMAIN body : body[i] # OKLine
             /\ last = Some(<<"7">>) => v = 7
             /\ last = Some(<<"abc">>) => v = 0
             /\ last = None => v = 0

\* update answered by a value that is no number, then the job id, then OK
C35_Witness ==
    /\ hname = "RespMapResponse"
    /\ hres.kind = "Ok"
    /\ rd.lines = <<Line("updating_db", "abc"), Line("updating_db", "7"), OKLine>>
    /\ rd.pos = 3
    /\ DatabaseVersionFrom(Returned) = 7

\* a character with the backslash escape puts before it
EscTok(tok) == IF tok \in {"\\", "\"", "'"} THEN <<"\\", tok>> ELSE <<tok>>

RECURSIVE EscEach(_)
EscEach(t) == IF t = <<>> THEN <<>> ELSE EscTok(t[1]) \o EscEach(SubSeq(t, 2, Len(t)))

\* the text of one building call before escaping
OpText(o) ==
    (IF o.op = "and_not" THEN <<"!">> ELSE <<>>)
    \o <<"(", o.expr.tag, " ", IF o.expr.kind = "Equals" THEN "==" ELSE "contains",
         " ", "\"">>
    \o o.expr.s \o <<"\"", ")">>

\* the texts of the building calls in call order with AND between them
RECURSIVE OpsText(_)
OpsText(ops) ==
    IF Len(ops) = 1 THEN OpText(ops[1])
    ELSE OpsText(SubSeq(ops, 1, Len(ops) - 1)) \o <<" ", "AND", " ">> \o OpText(ops[Len(ops)])

\* C36: to_query of a filter without expressions is None, and search then
\* sends the bare line search. Otherwise it is one pair of parentheses
\* around the expressions in the order they were added, with AND between
\* them and ! before those added by and_not, in which every backslash has
\* become two and every double quote and apostrophe has one backslash put
\* before it.
C36_FilterQuery ==
    (conv # None /\ conv[1].fn = "search")
    => LET ops == conv[1].arg
           q == conv[1].val.query
       IN /\ ops = <<>> => (q = None /\ conv[1].val.line = <<"search", "\n">>)
          /\ ops # <<>> => q = Some(<<"(">> \o EscEach(OpsText(ops)) \o <<")">>)
          /\ ops = <<[op |-> "and", expr |-> Equals("Artist", <<"a", "\\", "b">>)]>>
             => q = Some(<<"(", "(", "Artist", " ", "==", " ", "\\", "\"",
                           "a", "\\", "\\", "b", "\\", "\"", ")", ")">>)

\* a filter of two expressions, the second added by and_not and holding an
\* apostrophe
C36_Witness ==
    /\ conv # None
    /\ conv[1].fn = "search"
    /\ conv[1].arg = <<[op |-> "and", expr |-> Equals("Artist", <<"a">>)],
                       [op |-> "and_not", expr |-> Contains("Album", <<"it", "'", "s">>)]>>
    /\ conv[1].val.query
         = Some(<<"(", "(", "Artist", " ", "==", " ", "\\", "\"", "a", "\\", "\"", ")",
                  " ", "AND", " ",
                  "!", "(", "Album", " ", "contains", " ", "\\", "\"",
                  "it", "\\", "'", "s", "\\", "\"", ")", ")">>)

====
